---- MODULE Spec2Model ----
(***************************************************************************)
(* Model of the event-ticket issuing service: the field normalizer         *)
(* handle_options (src/main.py), the POST /create-ticket/ handler          *)
(* (src/main.py) and the three DemoEventTicket operations it calls         *)
(* (src/utils/event_ticket.py), run against a wallet backend that holds    *)
(* the pass classes and pass objects.                                      *)
(***************************************************************************)
EXTENDS Integers, Sequences, FiniteSets, TLC

VARIABLES nData, nResult, nAgain, nStage,
          pc, args, body, data, missing_params, create_class_result,
          create_object_result, create_existing, response, calls,
          wallet_classes, wallet_objects

normVars == <<nData, nResult, nAgain, nStage>>

requestVars ==
    <<pc, args, body, data, missing_params, create_class_result,
      create_object_result, create_existing, response, calls>>

walletVars == <<wallet_classes, wallet_objects>>

vars == <<normVars, requestVars, walletVars>>

(***************************************************************************)
(* JSON / Python values.  A value carries its Python type in t.            *)
(***************************************************************************)
Str(s) == [t |-> "str", s |-> s]

Num(n) == [t |-> "num", n |-> n]

Bool(b) == [t |-> "bool", b |-> b]

Null == [t |-> "null"]

List(items) == [t |-> "list", items |-> items]

Dict(d) == [t |-> "dict", d |-> d]

EmptyMap == [k \in {} |-> Null]

(* Python's `a in b` for two strings: a occurs in b as a substring. *)
IsSubstring(a, b) ==
    \E i \in 1..(Len(b) - Len(a) + 1) : SubSeq(b, i, i + Len(a) - 1) = a

(* bool(v) is False: None, "", 0, False, [] and {} are falsy. *)
Falsy(v) ==
    CASE v.t = "null" -> TRUE
      [] v.t = "str"  -> v.s = ""
      [] v.t = "num"  -> v.n = 0
      [] v.t = "bool" -> ~v.b
      [] v.t = "list" -> v.items = <<>>
      [] v.t = "dict" -> DOMAIN v.d = {}

(***************************************************************************)
(* handle_options: the default template and the merge of the caller's      *)
(* mapping over it.                                                        *)
(***************************************************************************)
DefaultKeys ==
    <<"event_name", "banner", "main_image", "google_map_url", "header_text",
      "body_text", "phone_number", "section", "issuer_name", "gate",
      "ticket_number", "ticket_holder_name", "seat">>

DefaultKeySet == {DefaultKeys[i] : i \in 1..Len(DefaultKeys)}

StringKeys == DefaultKeySet \ {"seat"}

SeatKeys == {"row", "seat_no"}

defaults ==
    [event_name |-> Str("Event Name"),
     banner |-> Str("https://farm4.staticflickr.com/3723/11177041115_6e6a3b6f49_o.jpg"),
     main_image |-> Str("http://farm4.staticflickr.com/3738/12440799783_3dc3c20606_b.jpg"),
     google_map_url |-> Str("http://maps.google.com/"),
     header_text |-> Str("Text module header"),
     body_text |-> Str("Text module body"),
     phone_number |-> Str("9876543210"),
     section |-> Str("0"),
     issuer_name |-> Str("Issuer Name"),
     gate |-> Str("0"),
     ticket_number |-> Str("ABC123456789"),
     ticket_holder_name |-> Str("Ticket Holder Name"),
     seat |-> Dict([row |-> Str("0"), seat_no |-> Str("0")])]

Raised == [raised |-> TRUE]

Returned(value) == [raised |-> FALSE, value |-> value]

(* result = defaults.copy() *)
InitialResult_NoCopy == EmptyMap

InitialResult == defaults

(* The keys the loop visits: for key, default_value in defaults.items() *)
LoopKeys_PassThrough(payload) ==
    IF payload.t = "dict" /\ "extra" \in DOMAIN payload.d
    THEN DefaultKeys \o <<"extra">>
    ELSE DefaultKeys

LoopKeys(payload) == DefaultKeys

(* `key in payload`: raises TypeError when payload is None, a number or a bool. *)
MembershipRaises(payload) == payload.t \in {"null", "num", "bool"}

KeyIn(key, payload) ==
    CASE payload.t = "dict" -> key \in DOMAIN payload.d
      [] payload.t = "list" -> \E i \in 1..Len(payload.items) : payload.items[i] = Str(key)
      [] payload.t = "str"  -> IsSubstring(key, payload.s)
      [] OTHER -> FALSE

(* The isinstance(value, str) branch: "" means the default. *)
StringValue_KeepEmpty(value, default_value) == value

StringValue(value, default_value) ==
    IF value.s = "" THEN default_value ELSE value

(* The isinstance(value, dict) branch: {**default_value, **value}, then the
   default for every default sub-key the caller gave as "".  Unpacking a
   default that is a string raises TypeError. *)
MergeRaises(default_value) == default_value.t # "dict"

SubValue_KeepEmpty(d, v, sub_key) ==
    IF sub_key \in DOMAIN v THEN v[sub_key] ELSE d[sub_key]

SubValue(d, v, sub_key) ==
    IF sub_key \in DOMAIN v
    THEN IF sub_key \in DOMAIN d /\ v[sub_key] = Str("") THEN d[sub_key] ELSE v[sub_key]
    ELSE d[sub_key]

DictValue(value, default_value) ==
    LET d == default_value.d
        v == value.d
    IN  Dict([sub_key \in DOMAIN d \cup DOMAIN v |-> SubValue(d, v, sub_key)])

(* The else branch: a number, boolean, list or None is stored as given. *)
OtherValue_OrEmpty(value, default_value) ==
    IF Falsy(value) THEN Str("") ELSE value

OtherValue(value, default_value) == value

RECURSIVE HandleLoop(_, _, _)
HandleLoop(keys, payload, result) ==
    IF keys = <<>> THEN Returned(result)
    ELSE LET key == Head(keys)
             default_value == IF key \in DOMAIN defaults THEN defaults[key] ELSE Null
             Store(val) == [k \in DOMAIN result \cup {key} |->
                               IF k = key THEN val ELSE result[k]]
         IN  IF MembershipRaises(payload) THEN Raised
             ELSE IF ~KeyIn(key, payload) THEN HandleLoop(Tail(keys), payload, result)
             ELSE IF payload.t # "dict" THEN Raised
             ELSE LET value == payload.d[key]
                  IN  IF value.t = "str"
                      THEN HandleLoop(Tail(keys), payload,
                                      Store(StringValue(value, default_value)))
                      ELSE IF value.t = "dict"
                      THEN IF MergeRaises(default_value) THEN Raised
                           ELSE HandleLoop(Tail(keys), payload,
                                           Store(DictValue(value, default_value)))
                      ELSE HandleLoop(Tail(keys), payload,
                                      Store(OtherValue(value, default_value)))

handle_options(payload) == HandleLoop(LoopKeys(payload), payload, InitialResult)

(***************************************************************************)
(* The inputs of the normalizer specification: mappings of at most MaxKeys *)
(* keys, default keys or the unknown key "extra", over values of every     *)
(* JSON type.                                                              *)
(***************************************************************************)
MaxKeys == 2

UnknownKey == "extra"

InputKeys == DefaultKeySet \cup {UnknownKey}

SubKeys == SeatKeys \cup {"aisle"}

SubVals == {Str(""), Str("A")}

SeatDicts == UNION {[D -> SubVals] : D \in SUBSET SubKeys}

TopVals ==
    {Str(""), Str("Launch"), Num(7), Bool(TRUE), Null, List(<<>>),
     Dict(EmptyMap), Dict([row |-> Null])}

ValsFor(key) ==
    IF key = "seat" THEN TopVals \cup {Dict(d) : d \in SeatDicts} ELSE TopVals

(***************************************************************************)
(* The wallet collaborator (DemoEventTicket) and the outcomes of the calls *)
(* it makes to the wallet backend.                                         *)
(***************************************************************************)
Req == {1, 2}

Ok == [kind |-> "ok"]

HttpError(status_code) == [kind |-> "HttpError", status_code |-> status_code]

OtherException == [kind |-> "Exception"]

(* f'{issuer_id}.{suffix}' *)
ResourceId(issuer_id, suffix) == issuer_id.s \o "." \o suffix.s

Digits == "0123456789"

RECURSIVE NatToStr(_)
NatToStr(n) ==
    IF n < 10 THEN SubSeq(Digits, n + 1, n + 1)
    ELSE NatToStr(n \div 10) \o SubSeq(Digits, (n % 10) + 1, (n % 10) + 1)

KeyOrder == <<"row", "seat_no", "aisle">> \o DefaultKeys \o <<"extra">>

(* The text an f-string puts for a value: str(v), and repr(v) for the items
   of a list or dict. *)
RECURSIVE PyRepr(_)
RECURSIVE JoinRepr(_)
RECURSIVE JoinItems(_, _)
PyRepr(v) ==
    CASE v.t = "str"  -> "'" \o v.s \o "'"
      [] v.t = "num"  -> NatToStr(v.n)
      [] v.t = "bool" -> IF v.b THEN "True" ELSE "False"
      [] v.t = "null" -> "None"
      [] v.t = "list" -> "[" \o JoinRepr(v.items) \o "]"
      [] v.t = "dict" -> "{" \o JoinItems(v.d, KeyOrder) \o "}"

JoinRepr(items) ==
    IF items = <<>> THEN ""
    ELSE IF Len(items) = 1 THEN PyRepr(items[1])
    ELSE PyRepr(items[1]) \o ", " \o JoinRepr(Tail(items))

JoinItems(d, keys) ==
    IF keys = <<>> THEN ""
    ELSE IF Head(keys) \notin DOMAIN d THEN JoinItems(d, Tail(keys))
    ELSE LET rest == JoinItems(d, Tail(keys))
             item == "'" \o Head(keys) \o "': " \o PyRepr(d[Head(keys)])
         IN  IF rest = "" THEN item ELSE item \o ", " \o rest

PyStr(v) == IF v.t = "str" THEN v.s ELSE PyRepr(v)

(* eventticketclass().get / eventticketobject().get *)
GetOutcomes(exists) ==
    (IF exists THEN {Ok} ELSE {HttpError(404)})
        \cup {HttpError(400), HttpError(500), OtherException}

(* eventticketclass().insert *)
ClassInsertOutcomes(class_id) ==
    (IF class_id \in DOMAIN wallet_classes THEN {HttpError(409)} ELSE {Ok})
        \cup {HttpError(500), OtherException}

(* eventticketobject().insert *)
ObjectInsertOutcomes(object_id, class_id) ==
    (IF object_id \in DOMAIN wallet_objects THEN {HttpError(409)}
     ELSE IF class_id \notin DOMAIN wallet_classes THEN {HttpError(404)}
     ELSE {Ok})
        \cup {HttpError(500), OtherException}

new_class(issuer_id, class_suffix, d) ==
    [eventId |-> ResourceId(issuer_id, class_suffix),
     eventName |-> PyStr(d["event_name"]),
     id |-> ResourceId(issuer_id, class_suffix),
     issuerName |-> PyStr(d["issuer_name"]),
     reviewStatus |-> "UNDER_REVIEW"]

(* data["seat"]["seat_no"] raises TypeError unless seat is a mapping. *)
NewObjectRaises(d) == d["seat"].t # "dict"

new_object(issuer_id, class_suffix, object_suffix, d) ==
    [id |-> ResourceId(issuer_id, object_suffix),
     classId |-> ResourceId(issuer_id, class_suffix),
     state |-> "ACTIVE",
     heroImage |-> d["banner"],
     logoImage |-> d["banner"],
     textHeader |-> d["header_text"],
     textBody |-> d["body_text"],
     linkUri |-> d["google_map_url"],
     telUri |-> "tel:" \o PyStr(d["phone_number"]),
     mainImage |-> d["main_image"],
     seat |-> PyStr(d["seat"].d["seat_no"]),
     row |-> PyStr(d["seat"].d["row"]),
     section |-> PyStr(d["section"]),
     gate |-> PyStr(d["gate"]),
     ticketHolderName |-> PyStr(d["ticket_holder_name"]),
     ticketNumber |-> PyStr(d["ticket_number"])]

(* The results DemoEventTicket.create_class returns. *)
ClassInvalidRequest ==
    [status |-> "invalid_request", message |-> "Invalid resource ID.",
     error |-> "error_details", has_error |-> TRUE]

ClassError ==
    [status |-> "error",
     message |-> "An unexpected error occurred while checking class existence. Please try again later.",
     has_error |-> TRUE]

ClassExists(issuer_id, class_suffix) ==
    [status |-> "exists", message |-> "The class already exists.",
     issuer_id |-> issuer_id.s, class_suffix |-> class_suffix.s,
     class_id |-> ResourceId(issuer_id, class_suffix), has_error |-> TRUE]

ClassCreated(issuer_id, class_suffix, resp) ==
    [status |-> "created", message |-> "Class successfully created.",
     issuer_id |-> issuer_id.s, class_suffix |-> class_suffix.s,
     class_id |-> ResourceId(issuer_id, class_suffix), response |-> resp,
     has_error |-> FALSE]

(* The results DemoEventTicket.create_object returns. *)
response_details(object_id) ==
    [object_id |-> object_id, status |-> "unknown", message |-> "",
     has_error |-> TRUE]

ObjectInvalidRequest ==
    [status |-> "invalid_request", message |-> "Invalid resource ID.",
     error |-> "error_details", has_error |-> TRUE]

ObjectError(object_id) ==
    [object_id |-> object_id, status |-> "error",
     message |-> "An error occurred while checking the object existence.",
     error |-> "error_details", has_error |-> TRUE]

ObjectExists(object_id) ==
    [object_id |-> object_id, status |-> "exists",
     message |-> "Object " \o object_id \o " already exists!",
     has_error |-> TRUE]

ObjectCreated_Flagged(object_id, resp) ==
    [object_id |-> object_id, status |-> "created",
     message |-> "Object created successfully.", response |-> resp,
     has_error |-> TRUE]

ObjectCreated(object_id, resp) ==
    [object_id |-> object_id, status |-> "created",
     message |-> "Object created successfully.", response |-> resp,
     has_error |-> FALSE]

ObjectClassNotFound(object_id, class_id) ==
    [object_id |-> object_id, status |-> "class_not_found",
     message |-> "Wallet Object Class " \o class_id \o " not found.",
     has_error |-> TRUE]

(* create_jwt_existing_objects: the signed token is opaque; it is
   determined by the object and class the claims name. *)
SaveLinkPrefix_Other == "https://wallet.google.com/save/"

SaveLinkPrefix == "https://pay.google.com/gp/v/save/"

JwtToken(issuer_id, class_suffix, object_suffix) ==
    "jwt:" \o ResourceId(issuer_id, object_suffix) \o ":"
           \o ResourceId(issuer_id, class_suffix)

JwtSuccess(issuer_id, class_suffix, object_suffix) ==
    [status |-> "success", message |-> "JWT successfully generated.",
     wallet_link |-> SaveLinkPrefix \o JwtToken(issuer_id, class_suffix, object_suffix)]

JwtOutcomes == {Ok, OtherException}

(***************************************************************************)
(* The POST /create-ticket/ handler (create_class in main.py), one action  *)
(* per step of the handler for each request in flight.                     *)
(***************************************************************************)
IssuerIds == {Null, Str(""), Str("I")}

ClassSuffixes == {Null, Str(""), Str("C")}

ObjectSuffixes == {Null, Str(""), Str("O")}

RequestArgs ==
    [issuer_id : IssuerIds, class_suffix : ClassSuffixes,
     object_suffix : ObjectSuffixes]

BodyValues ==
    {Null, List(<<>>), List(<<Str("event_name")>>), Str("abc"), Num(5),
     Dict(EmptyMap),
     Dict([event_name |-> Str("Launch")]),
     Dict([event_name |-> Str("Launch"), banner |-> Dict(EmptyMap)]),
     Dict([event_name |-> Str(""), phone_number |-> Num(5)]),
     Dict([gate |-> Str("7"), extra |-> Str("x")]),
     Dict([seat |-> Dict([row |-> Str(""), seat_no |-> Str("5")])]),
     Dict([seat |-> Str("A12")])}

Bodies ==
    {[kind |-> "absent"], [kind |-> "undecodable"]}
        \cup {[kind |-> "json", value |-> v] : v \in BodyValues}

(* request.get_json(): a decoded value, or an exception; for a request
   without a JSON body it raises or returns None, by framework version. *)
GetJsonOutcomes(b) ==
    CASE b.kind = "absent" -> {Raised, Returned(Null)}
      [] b.kind = "undecodable" -> {Raised}
      [] b.kind = "json" -> {Returned(b.value)}

ArgNames == <<"issuer_id", "class_suffix", "object_suffix">>

(* if not x: missing_params.append(name), for the three names in turn *)
IsMissing_OnlyNone(v) == v.t = "null"

IsMissing(v) == Falsy(v)

RECURSIVE AppendMissing(_, _, _)
AppendMissing(names, a, missing) ==
    IF names = <<>> THEN missing
    ELSE AppendMissing(Tail(names), a,
                       IF IsMissing(a[Head(names)])
                       THEN Append(missing, Head(names))
                       ELSE missing)

MissingParams(a) == AppendMissing(ArgNames, a, <<>>)

MissingResponse(missing) ==
    [code |-> 400,
     body |-> [error |-> "Missing parameters", missing |-> missing,
               message |-> "Please provide the required parameters: issuer_id, class_suffix, object_suffix."]]

ErrorResponse ==
    [code |-> 500,
     body |-> [error |-> "An error occurred while creating the class."]]

(* An exception that leaves the view function: the framework's own 500. *)
UnhandledResponse == [code |-> 500, body |-> [html |-> "Internal Server Error"]]

(* jsonify(result): HTTP 200 with the result as the body *)
Jsonify(result) == [code |-> 200, body |-> result]

(* data = handle_options(request.get_json()), and on any exception
   data = handle_options(dict()) *)
FallbackData_Propagate(normalized) == normalized

FallbackData(normalized) == handle_options(Dict(EmptyMap))

NormalizedBody(json) ==
    LET normalized == IF json.raised THEN Raised ELSE handle_options(json.value)
    IN  IF normalized.raised THEN FallbackData(normalized) ELSE normalized

ClassId(r) == ResourceId(args[r].issuer_id, args[r].class_suffix)

ObjectId(r) == ResourceId(args[r].issuer_id, args[r].object_suffix)

Call(op, outcome) == [op |-> op, outcome |-> outcome]

(* The synchronous worker takes the next request when it has answered
   the one before. *)
Receive(r, a, b) ==
    /\ \A q \in Req : pc[q] = "idle"
    /\ pc' = [pc EXCEPT ![r] = "validate"]
    /\ args' = [args EXCEPT ![r] = a]
    /\ body' = [body EXCEPT ![r] = b]
    /\ UNCHANGED <<data, missing_params, create_class_result,
                   create_object_result, create_existing, response, calls,
                   walletVars, normVars>>

Validate_NoReturn(r) ==
    /\ pc[r] = "validate"
    /\ LET missing == MissingParams(args[r])
       IN  /\ missing_params' = [missing_params EXCEPT ![r] = missing]
           /\ IF missing # <<>>
              THEN /\ response' = [response EXCEPT ![r] = MissingResponse(missing)]
                   /\ pc' = [pc EXCEPT ![r] = "parse"]
              ELSE /\ pc' = [pc EXCEPT ![r] = "parse"]
                   /\ UNCHANGED response
    /\ UNCHANGED <<args, body, data, create_class_result, create_object_result,
                   create_existing, calls, walletVars, normVars>>

Validate(r) ==
    /\ pc[r] = "validate"
    /\ LET missing == MissingParams(args[r])
       IN  /\ missing_params' = [missing_params EXCEPT ![r] = missing]
           /\ IF missing # <<>>
              THEN /\ response' = [response EXCEPT ![r] = MissingResponse(missing)]
                   /\ pc' = [pc EXCEPT ![r] = "done"]
              ELSE /\ pc' = [pc EXCEPT ![r] = "parse"]
                   /\ UNCHANGED response
    /\ UNCHANGED <<args, body, data, create_class_result, create_object_result,
                   create_existing, calls, walletVars, normVars>>

ParseBody(r) ==
    /\ pc[r] = "parse"
    /\ \E json \in GetJsonOutcomes(body[r]) :
          LET normalized == NormalizedBody(json)
          IN  IF normalized.raised
              THEN /\ response' = [response EXCEPT ![r] = UnhandledResponse]
                   /\ pc' = [pc EXCEPT ![r] = "done"]
                   /\ UNCHANGED data
              ELSE /\ data' = [data EXCEPT ![r] = normalized.value]
                   /\ pc' = [pc EXCEPT ![r] = "class_get"]
                   /\ UNCHANGED response
    /\ UNCHANGED <<args, body, missing_params, create_class_result,
                   create_object_result, create_existing, calls, walletVars,
                   normVars>>

(* An exception inside the handler's try block: HTTP 500. *)
Fail_Unhandled(r) ==
    /\ response' = [response EXCEPT ![r] = UnhandledResponse]
    /\ pc' = [pc EXCEPT ![r] = "done"]

Fail(r) ==
    /\ response' = [response EXCEPT ![r] = ErrorResponse]
    /\ pc' = [pc EXCEPT ![r] = "done"]

ClassGet(r) ==
    /\ pc[r] = "class_get"
    /\ \E outcome \in GetOutcomes(ClassId(r) \in DOMAIN wallet_classes) :
          /\ calls' = [calls EXCEPT ![r] = Append(@, Call("eventticketclass.get", outcome))]
          /\ CASE outcome = Ok ->
                    /\ create_class_result' = [create_class_result EXCEPT ![r] =
                            ClassExists(args[r].issuer_id, args[r].class_suffix)]
                    /\ pc' = [pc EXCEPT ![r] = "object_get"]
                    /\ UNCHANGED response
               [] outcome = HttpError(400) ->
                    /\ create_class_result' = [create_class_result EXCEPT ![r] = ClassInvalidRequest]
                    /\ pc' = [pc EXCEPT ![r] = "object_get"]
                    /\ UNCHANGED response
               [] outcome = HttpError(404) ->
                    /\ pc' = [pc EXCEPT ![r] = "class_insert"]
                    /\ UNCHANGED <<create_class_result, response>>
               [] outcome = OtherException ->
                    /\ Fail(r)
                    /\ UNCHANGED create_class_result
               [] OTHER ->
                    /\ create_class_result' = [create_class_result EXCEPT ![r] = ClassError]
                    /\ pc' = [pc EXCEPT ![r] = "object_get"]
                    /\ UNCHANGED response
    /\ UNCHANGED <<args, body, data, missing_params, create_object_result,
                   create_existing, walletVars, normVars>>

ClassInsert(r) ==
    /\ pc[r] = "class_insert"
    /\ \E outcome \in ClassInsertOutcomes(ClassId(r)) :
          LET body_sent == new_class(args[r].issuer_id, args[r].class_suffix, data[r])
          IN  /\ calls' = [calls EXCEPT ![r] = Append(@, Call("eventticketclass.insert", outcome))]
              /\ IF outcome = Ok
                 THEN /\ wallet_classes' =
                            [id \in DOMAIN wallet_classes \cup {ClassId(r)} |->
                                IF id = ClassId(r) THEN body_sent ELSE wallet_classes[id]]
                      /\ create_class_result' = [create_class_result EXCEPT ![r] =
                            ClassCreated(args[r].issuer_id, args[r].class_suffix, body_sent)]
                      /\ pc' = [pc EXCEPT ![r] = "object_get"]
                      /\ UNCHANGED response
                 ELSE /\ Fail(r)
                      /\ UNCHANGED <<wallet_classes, create_class_result>>
    /\ UNCHANGED <<args, body, data, missing_params, create_object_result,
                   create_existing, wallet_objects, normVars>>

ObjectGet_InsertOnError(r) ==
    /\ pc[r] = "object_get"
    /\ \E outcome \in GetOutcomes(ObjectId(r) \in DOMAIN wallet_objects) :
          /\ calls' = [calls EXCEPT ![r] = Append(@, Call("eventticketobject.get", outcome))]
          /\ CASE outcome = Ok ->
                    /\ create_object_result' = [create_object_result EXCEPT ![r] =
                            ObjectExists(ObjectId(r))]
                    /\ pc' = [pc EXCEPT ![r] = "jwt"]
                    /\ UNCHANGED response
               [] outcome = HttpError(400) ->
                    /\ create_object_result' = [create_object_result EXCEPT ![r] = ObjectInvalidRequest]
                    /\ pc' = [pc EXCEPT ![r] = "jwt"]
                    /\ UNCHANGED response
               [] outcome = HttpError(404) ->
                    /\ pc' = [pc EXCEPT ![r] = "object_insert"]
                    /\ UNCHANGED <<create_object_result, response>>
               [] outcome = OtherException ->
                    /\ Fail(r)
                    /\ UNCHANGED create_object_result
               [] OTHER ->
                    /\ pc' = [pc EXCEPT ![r] = "object_insert"]
                    /\ UNCHANGED <<create_object_result, response>>
    /\ UNCHANGED <<args, body, data, missing_params, create_class_result,
                   create_existing, walletVars, normVars>>

ObjectGet(r) ==
    /\ pc[r] = "object_get"
    /\ \E outcome \in GetOutcomes(ObjectId(r) \in DOMAIN wallet_objects) :
          /\ calls' = [calls EXCEPT ![r] = Append(@, Call("eventticketobject.get", outcome))]
          /\ CASE outcome = Ok ->
                    /\ create_object_result' = [create_object_result EXCEPT ![r] =
                            ObjectExists(ObjectId(r))]
                    /\ pc' = [pc EXCEPT ![r] = "jwt"]
                    /\ UNCHANGED response
               [] outcome = HttpError(400) ->
                    /\ create_object_result' = [create_object_result EXCEPT ![r] = ObjectInvalidRequest]
                    /\ pc' = [pc EXCEPT ![r] = "jwt"]
                    /\ UNCHANGED response
               [] outcome = HttpError(404) ->
                    /\ pc' = [pc EXCEPT ![r] = "object_insert"]
                    /\ UNCHANGED <<create_object_result, response>>
               [] outcome = OtherException ->
                    /\ Fail(r)
                    /\ UNCHANGED create_object_result
               [] OTHER ->
                    /\ create_object_result' = [create_object_result EXCEPT ![r] =
                            ObjectError(ObjectId(r))]
                    /\ pc' = [pc EXCEPT ![r] = "jwt"]
                    /\ UNCHANGED response
    /\ UNCHANGED <<args, body, data, missing_params, create_class_result,
                   create_existing, walletVars, normVars>>

(* Building new_object reads data["seat"]["seat_no"]; a TypeError there
   leaves create_object before the insert is sent. *)
ObjectBuildFails(r) ==
    /\ pc[r] = "object_insert"
    /\ NewObjectRaises(data[r])
    /\ Fail(r)
    /\ UNCHANGED <<args, body, data, missing_params, create_class_result,
                   create_object_result, create_existing, calls, walletVars,
                   normVars>>

ObjectInsert(r) ==
    /\ pc[r] = "object_insert"
    /\ ~NewObjectRaises(data[r])
    /\ \E outcome \in ObjectInsertOutcomes(ObjectId(r), ClassId(r)) :
          LET body_sent == new_object(args[r].issuer_id, args[r].class_suffix,
                                      args[r].object_suffix, data[r])
          IN  /\ calls' = [calls EXCEPT ![r] = Append(@, Call("eventticketobject.insert", outcome))]
              /\ CASE outcome = Ok ->
                        /\ wallet_objects' =
                              [id \in DOMAIN wallet_objects \cup {ObjectId(r)} |->
                                  IF id = ObjectId(r) THEN body_sent ELSE wallet_objects[id]]
                        /\ create_object_result' = [create_object_result EXCEPT ![r] =
                              ObjectCreated(ObjectId(r), body_sent)]
                        /\ pc' = [pc EXCEPT ![r] = "jwt"]
                        /\ UNCHANGED response
                   [] outcome = HttpError(404) ->
                        /\ create_object_result' = [create_object_result EXCEPT ![r] =
                              ObjectClassNotFound(ObjectId(r), ClassId(r))]
                        /\ pc' = [pc EXCEPT ![r] = "jwt"]
                        /\ UNCHANGED <<wallet_objects, response>>
                   [] outcome = OtherException ->
                        /\ Fail(r)
                        /\ UNCHANGED <<wallet_objects, create_object_result>>
                   [] OTHER ->
                        /\ create_object_result' = [create_object_result EXCEPT ![r] =
                              response_details(ObjectId(r))]
                        /\ pc' = [pc EXCEPT ![r] = "jwt"]
                        /\ UNCHANGED <<wallet_objects, response>>
    /\ UNCHANGED <<args, body, data, missing_params, create_class_result,
                   create_existing, wallet_classes, normVars>>

(* create_existing = ticket.create_jwt_existing_objects(...), called before
   create_object["has_error"] is looked at. *)
CreateJwt(r) ==
    /\ pc[r] = "jwt"
    /\ \E outcome \in JwtOutcomes :
          /\ calls' = [calls EXCEPT ![r] = Append(@, Call("create_jwt_existing_objects", outcome))]
          /\ IF outcome = Ok
             THEN /\ create_existing' = [create_existing EXCEPT ![r] =
                        JwtSuccess(args[r].issuer_id, args[r].class_suffix,
                                   args[r].object_suffix)]
                  /\ pc' = [pc EXCEPT ![r] = "respond"]
                  /\ UNCHANGED response
             ELSE /\ Fail(r)
                  /\ UNCHANGED create_existing
    /\ UNCHANGED <<args, body, data, missing_params, create_class_result,
                   create_object_result, walletVars, normVars>>

(* if create_object["has_error"]: return jsonify(create_object)
   else: return jsonify(create_existing); create_class is not read. *)
ResponseBody_ClassChecked(class_result, object_result, existing) ==
    IF class_result.has_error THEN class_result
    ELSE IF object_result.has_error THEN object_result ELSE existing

ResponseBody(class_result, object_result, existing) ==
    IF object_result.has_error THEN object_result ELSE existing

Respond(r) ==
    /\ pc[r] = "respond"
    /\ response' = [response EXCEPT ![r] =
            Jsonify(ResponseBody(create_class_result[r], create_object_result[r],
                                 create_existing[r]))]
    /\ pc' = [pc EXCEPT ![r] = "done"]
    /\ UNCHANGED <<args, body, data, missing_params, create_class_result,
                   create_object_result, create_existing, calls, walletVars,
                   normVars>>

(* The response is sent; nothing of the request is kept. *)
Finish(r) ==
    /\ pc[r] = "done"
    /\ pc' = [pc EXCEPT ![r] = "idle"]
    /\ args' = [args EXCEPT ![r] = Null]
    /\ body' = [body EXCEPT ![r] = Null]
    /\ data' = [data EXCEPT ![r] = Null]
    /\ missing_params' = [missing_params EXCEPT ![r] = <<>>]
    /\ create_class_result' = [create_class_result EXCEPT ![r] = Null]
    /\ create_object_result' = [create_object_result EXCEPT ![r] = Null]
    /\ create_existing' = [create_existing EXCEPT ![r] = Null]
    /\ response' = [response EXCEPT ![r] = Null]
    /\ calls' = [calls EXCEPT ![r] = <<>>]
    /\ UNCHANGED <<walletVars, normVars>>

EndpointIdle ==
    /\ pc = [r \in Req |-> "idle"]
    /\ args = [r \in Req |-> Null]
    /\ body = [r \in Req |-> Null]
    /\ data = [r \in Req |-> Null]
    /\ missing_params = [r \in Req |-> <<>>]
    /\ create_class_result = [r \in Req |-> Null]
    /\ create_object_result = [r \in Req |-> Null]
    /\ create_existing = [r \in Req |-> Null]
    /\ response = [r \in Req |-> Null]
    /\ calls = [r \in Req |-> <<>>]
    /\ wallet_classes = EmptyMap
    /\ wallet_objects = EmptyMap

NormIdle ==
    /\ nData = Dict(EmptyMap)
    /\ nResult = Null
    /\ nAgain = Null
    /\ nStage = "input"

Init == EndpointIdle /\ NormIdle

Next ==
    \E r \in Req :
        \/ \E a \in RequestArgs : \E b \in Bodies : Receive(r, a, b)
        \/ Validate(r)
        \/ ParseBody(r)
        \/ ClassGet(r)
        \/ ClassInsert(r)
        \/ ObjectGet(r)
        \/ ObjectBuildFails(r)
        \/ ObjectInsert(r)
        \/ CreateJwt(r)
        \/ Respond(r)
        \/ Finish(r)

Spec == Init /\ [][Next]_vars

NormInit ==
    /\ EndpointIdle
    /\ NormIdle

(* The caller adds one more field to the mapping it is about to submit. *)
SetField(key, value) ==
    /\ nStage = "input"
    /\ key \notin DOMAIN nData.d
    /\ Cardinality(DOMAIN nData.d) < MaxKeys
    /\ nData' = Dict([k \in DOMAIN nData.d \cup {key} |->
                         IF k = key THEN value ELSE nData.d[k]])
    /\ UNCHANGED <<nResult, nAgain, nStage, requestVars, walletVars>>

Normalize ==
    /\ nStage = "input"
    /\ nResult' = handle_options(nData)
    /\ nStage' = "normalized"
    /\ UNCHANGED <<nData, nAgain, requestVars, walletVars>>

(* handle_options applied to the record it returned. *)
Renormalize ==
    /\ nStage = "normalized"
    /\ ~nResult.raised
    /\ nAgain' = handle_options(Dict(nResult.value))
    /\ nStage' = "renormalized"
    /\ UNCHANGED <<nData, nResult, requestVars, walletVars>>

NormNext ==
    \/ \E key \in InputKeys : \E value \in ValsFor(key) : SetField(key, value)
    \/ Normalize
    \/ Renormalize

SpecNorm == NormInit /\ [][NormNext]_vars

(***************************************************************************)
(* Properties of handle_options, checked under SpecNorm.                   *)
(***************************************************************************)
HasReturned == nStage = "normalized" /\ ~nResult.raised

NonEmptyString(v) == v.t = "str" /\ v.s # ""

(* C4: every attribute of the normalized record is present and non-empty:
   the 12 top-level fields are non-empty strings and seat is a record with
   a non-empty row and a non-empty seat_no. *)
C4_EveryAttributeNonEmpty ==
    HasReturned =>
        /\ \A key \in StringKeys :
              key \in DOMAIN nResult.value /\ NonEmptyString(nResult.value[key])
        /\ "seat" \in DOMAIN nResult.value
        /\ nResult.value["seat"].t = "dict"
        /\ \A sub_key \in SeatKeys :
              /\ sub_key \in DOMAIN nResult.value["seat"].d
              /\ NonEmptyString(nResult.value["seat"].d[sub_key])

(* C5: the record handle_options returns has every one of the 13 keys of
   the default template. *)
C5_EveryDefaultKeyPresent ==
    HasReturned =>
        /\ Cardinality(DefaultKeySet) = 13
        /\ DefaultKeySet \subseteq DOMAIN nResult.value

C5_Witness ==
    /\ HasReturned
    /\ DOMAIN nData.d = {"gate", UnknownKey}
    /\ nResult.value["gate"] = Str("Launch")

SuppliedEmpty(d, key) == key \in DOMAIN d /\ d[key] = Str("")

(* C6: a field supplied as the empty string has its default value in the
   normalized record; so has seat.row, and so has seat.seat_no, each on its
   own, when seat is supplied as a mapping. *)
C6_EmptyStringMeansDefault ==
    HasReturned =>
        /\ \A key \in DefaultKeySet :
              SuppliedEmpty(nData.d, key) => nResult.value[key] = defaults[key]
        /\ ("seat" \in DOMAIN nData.d /\ nData.d["seat"].t = "dict") =>
              \A sub_key \in SeatKeys :
                  SuppliedEmpty(nData.d["seat"].d, sub_key) =>
                      nResult.value["seat"].d[sub_key] = defaults["seat"].d[sub_key]

C6_Witness ==
    /\ HasReturned
    /\ nData.d = [banner |-> Str(""),
                  seat |-> Dict([row |-> Str(""), seat_no |-> Str("A")])]
    /\ nResult.value["banner"] = defaults["banner"]
    /\ nResult.value["seat"] = Dict([row |-> Str("0"), seat_no |-> Str("A")])

WithoutKey(d, key) == [k \in DOMAIN d \ {key} |-> d[k]]

(* C8: a top-level key that is not in the default template changes
   nothing: the result is the result for the input without that key, and
   the key is not a key of the output. *)
C8_UnknownKeyHasNoEffect ==
    (nStage = "normalized" /\ UnknownKey \in DOMAIN nData.d) =>
        /\ nResult = handle_options(Dict(WithoutKey(nData.d, UnknownKey)))
        /\ ~nResult.raised => UnknownKey \notin DOMAIN nResult.value

C8_Witness ==
    /\ HasReturned
    /\ nData.d = [extra |-> Str("Launch"), event_name |-> Str("Launch")]
    /\ nResult.value = [defaults EXCEPT !["event_name"] = Str("Launch")]


(***************************************************************************)
(* Properties of the handler, checked under Spec.                          *)
(***************************************************************************)
Answered(r) == pc[r] = "done"

Normalized(r) == pc[r] \notin {"idle", "validate", "parse"} /\ data[r] # Null

ExpectedMissing(a) ==
    LET AbsentOrEmpty(name) == a[name] = Null \/ a[name] = Str("")
    IN  SelectSeq(ArgNames, AbsentOrEmpty)

(* C1: a request in which issuer_id, class_suffix or object_suffix is absent
   or empty is answered 400 with 'missing' listing exactly those names, in
   the order issuer_id, class_suffix, object_suffix; a request with all
   three is never answered 400. *)
C1_MissingParamsListed ==
    \A r \in Req :
        Answered(r) =>
            IF ExpectedMissing(args[r]) # <<>>
            THEN /\ response[r].code = 400
                 /\ response[r].body.error = "Missing parameters"
                 /\ response[r].body.missing = ExpectedMissing(args[r])
            ELSE response[r].code # 400

C1_Witness ==
    \E r \in Req :
        /\ Answered(r)
        /\ args[r].issuer_id = Str("")
        /\ args[r].class_suffix = Str("C")
        /\ args[r].object_suffix = Null
        /\ response[r].code = 400
        /\ response[r].body.missing = <<"issuer_id", "object_suffix">>

ObjectFailed(r) ==
    create_object_result[r] # Null /\ create_object_result[r].has_error

SaveLinkCalled(r) ==
    \E i \in 1..Len(calls[r]) : calls[r][i].op = "create_jwt_existing_objects"

(* C2: when create_object returned a result with has_error true, the
   response is HTTP 200 with that result as its body, whatever the
   save-link step does. *)
C2_ObjectErrorIsTheResponse ==
    \A r \in Req :
        (Answered(r) /\ ObjectFailed(r)) =>
            response[r] = [code |-> 200, body |-> create_object_result[r]]

(* C3: in a request whose object creation reported an error,
   create_jwt_existing_objects is never invoked. *)
C3_NoSaveLinkAfterObjectError ==
    \A r \in Req : ObjectFailed(r) => ~SaveLinkCalled(r)

MappingBody(r) == body[r].kind = "json" /\ body[r].value.t = "dict"

(* C7: every field the request body gives as a non-empty string has
   exactly that string in the record the handler passes to the
   collaborator, whatever the other fields of the body are. *)
C7_NonEmptyStringReachesCollaborator ==
    \A r \in Req :
        (Normalized(r) /\ MappingBody(r)) =>
            \A key \in DefaultKeySet \cap DOMAIN body[r].value.d :
                LET value == body[r].value.d[key]
                IN  (value.t = "str" /\ value.s # "") => data[r][key] = value

FirstCallIsClassGet(r) ==
    calls[r] # <<>> /\ calls[r][1].op = "eventticketclass.get"

(* C9: with all three identifiers given and a body that is absent,
   undecodable or not a mapping, the handler goes on to the collaborator
   with the full default template as the record. *)
C9_NonMappingBodyGivesDefaults ==
    \A r \in Req :
        (/\ pc[r] \notin {"idle", "validate", "parse"}
         /\ missing_params[r] = <<>>
         /\ ~MappingBody(r)) =>
            /\ data[r] = defaults
            /\ Answered(r) => FirstCallIsClassGet(r)

C9_Witness ==
    \E r \in Req :
        /\ pc[r] = "object_get"
        /\ body[r] = [kind |-> "json", value |-> List(<<Str("event_name")>>)]
        /\ data[r] = defaults
        /\ FirstCallIsClassGet(r)

LaunchBody == [kind |-> "json", value |-> Dict([event_name |-> Str("Launch")])]

ScenarioCalls ==
    <<Call("eventticketclass.get", HttpError(404)),
      Call("eventticketclass.insert", Ok),
      Call("eventticketobject.get", HttpError(404)),
      Call("eventticketobject.insert", Ok),
      Call("create_jwt_existing_objects", Ok)>>

StartsWith(str, prefix) ==
    Len(str) >= Len(prefix) /\ SubSeq(str, 1, Len(prefix)) = prefix

(* C10: all identifiers given, class and object not yet there, no call
   throws, body {"event_name": "Launch"}: the class is created, the object
   is created from the defaults with event_name 'Launch', and the answer
   is 200, status 'success', with a wallet_link that starts with
   https://pay.google.com/gp/v/save/ . *)
C10_LaunchScenario ==
    \A r \in Req :
        (Answered(r) /\ body[r] = LaunchBody /\ calls[r] = ScenarioCalls) =>
            /\ data[r] = [defaults EXCEPT !["event_name"] = Str("Launch")]
            /\ create_class_result[r].status = "created"
            /\ ClassId(r) \in DOMAIN wallet_classes
            /\ wallet_classes[ClassId(r)].eventName = "Launch"
            /\ wallet_classes[ClassId(r)].issuerName = "Issuer Name"
            /\ create_object_result[r].status = "created"
            /\ ObjectId(r) \in DOMAIN wallet_objects
            /\ wallet_objects[ObjectId(r)].classId = ClassId(r)
            /\ wallet_objects[ObjectId(r)].ticketNumber = "ABC123456789"
            /\ wallet_objects[ObjectId(r)].telUri = "tel:9876543210"
            /\ wallet_objects[ObjectId(r)].seat = "0"
            /\ wallet_objects[ObjectId(r)].row = "0"
            /\ response[r].code = 200
            /\ response[r].body.status = "success"
            /\ StartsWith(response[r].body.wallet_link,
                          "https://pay.google.com/gp/v/save/")

C10_Witness ==
    \E r \in Req :
        /\ Answered(r)
        /\ body[r] = LaunchBody
        /\ calls[r] = ScenarioCalls
        /\ response[r].body.wallet_link = "https://pay.google.com/gp/v/save/jwt:I.O:I.C"

CallOps(r) == [i \in 1..Len(calls[r]) |-> calls[r][i].op]

Called(r, op) == \E i \in 1..Len(calls[r]) : calls[r][i].op = op

(* C11: class creation is requested before object creation; once class
   creation has returned a result, with has_error true or false, object
   creation is requested next; a 200 answer is the object-creation result
   when that has has_error, else the save-link result; so a request whose
   class exists already and whose object is newly created is answered with
   the save-link result. *)
C11_ClassResultNotInspected ==
    \A r \in Req :
        /\ Called(r, "eventticketobject.get") =>
              /\ calls[r][1].op = "eventticketclass.get"
              /\ create_class_result[r] # Null
        /\ create_class_result[r] # Null =>
              pc[r] = "object_get" \/ Called(r, "eventticketobject.get")
        /\ (Answered(r) /\ response[r].code = 200) =>
              response[r].body =
                  IF create_object_result[r].has_error
                  THEN create_object_result[r] ELSE create_existing[r]
        /\ (/\ Answered(r)
            /\ create_class_result[r] # Null
            /\ create_class_result[r].status = "exists"
            /\ create_object_result[r] # Null
            /\ create_object_result[r].status = "created"
            /\ create_existing[r] # Null) =>
              /\ create_class_result[r].has_error
              /\ response[r] = [code |-> 200, body |-> create_existing[r]]
              /\ response[r].body.status = "success"

C11_Witness ==
    \E r \in Req :
        /\ Answered(r)
        /\ CallOps(r) = <<"eventticketclass.get", "eventticketobject.get",
                          "eventticketobject.insert", "create_jwt_existing_objects">>
        /\ create_class_result[r].status = "exists"
        /\ create_object_result[r].status = "created"
        /\ response[r].code = 200
        /\ response[r].body.status = "success"

(* A call whose exception leaves the collaborator operation: any exception
   of the save-link step or of the class insert, and every exception of a
   lookup or of the object insert that is not an HttpError. *)
Throws(call) ==
    \/ call.outcome = OtherException
    \/ call.op = "eventticketclass.insert" /\ call.outcome # Ok
    \/ call.op = "create_jwt_existing_objects" /\ call.outcome # Ok

(* C12: when a collaborator operation throws in a request that passed
   validation, the request is answered HTTP 500 with the body
   {error: 'An error occurred while creating the class.'} and no further
   collaborator operation of the request is invoked; no such request ends
   with any other non-200 answer. *)
C12_ThrowBecomesFixed500 ==
    \A r \in Req :
        /\ \A i \in 1..Len(calls[r]) :
              Throws(calls[r][i]) =>
                  /\ i = Len(calls[r])
                  /\ pc[r] = "done"
                  /\ response[r] =
                        [code |-> 500,
                         body |-> [error |-> "An error occurred while creating the class."]]
        /\ (Answered(r) /\ missing_params[r] = <<>> /\ response[r].code # 200) =>
              response[r] =
                  [code |-> 500,
                   body |-> [error |-> "An error occurred while creating the class."]]

C12_Witness ==
    \E r \in Req :
        /\ Answered(r)
        /\ calls[r] = <<Call("eventticketclass.get", HttpError(404)),
                        Call("eventticketclass.insert", HttpError(500))>>
        /\ response[r].code = 500

C12_WitnessBuild ==
    \E r \in Req :
        /\ Answered(r)
        /\ CallOps(r) = <<"eventticketclass.get", "eventticketobject.get">>
        /\ data[r]["seat"] = Str("A12")
        /\ response[r].code = 500

(***************************************************************************)
(* Further properties of handle_options, checked under SpecNorm.           *)
(***************************************************************************)
(* C13: handle_options returns a record, and never raises, for every
   mapping, whatever the type of the value each field carries. *)
C13_NeverRaises ==
    nStage = "normalized" => ~nResult.raised

SeatGivenAsMapping ==
    "seat" \in DOMAIN nData.d /\ nData.d["seat"].t = "dict"

(* C14: when seat is supplied as a mapping, the seat record of the output
   has exactly the sub-keys row and seat_no. *)
C14_SeatHasOnlyDefaultSubKeys ==
    (HasReturned /\ SeatGivenAsMapping) =>
        DOMAIN nResult.value["seat"].d = {"row", "seat_no"}

(* C15: when seat is supplied as a mapping, row and seat_no are each
   merged on their own: absent gives the default, the empty string gives
   the default, a non-empty string gives the caller's value. *)
C15_SeatSubKeysMergedIndependently ==
    (HasReturned /\ SeatGivenAsMapping) =>
        \A sub_key \in {"row", "seat_no"} :
            LET given == nData.d["seat"].d
                merged == nResult.value["seat"].d[sub_key]
                default == [row |-> Str("0"), seat_no |-> Str("0")][sub_key]
            IN  /\ sub_key \notin DOMAIN given => merged = default
                /\ sub_key \in DOMAIN given =>
                      /\ given[sub_key] = Str("") => merged = default
                      /\ NonEmptyString(given[sub_key]) => merged = given[sub_key]

C15_Witness ==
    /\ HasReturned
    /\ nData.d = [seat |-> Dict([row |-> Str(""), seat_no |-> Str("A")])]
    /\ nResult.value["seat"].d["row"] = Str("0")
    /\ nResult.value["seat"].d["seat_no"] = Str("A")

(* C20: handle_options applied to a record it returned gives that record
   again. *)
C20_Idempotent ==
    nStage = "renormalized" => nAgain = nResult

C20_Witness ==
    /\ nStage = "renormalized"
    /\ nData.d = [gate |-> Null,
                  seat |-> Dict([row |-> Str(""), aisle |-> Str("")])]
    /\ nAgain = Returned([defaults EXCEPT
                            !["gate"] = Null,
                            !["seat"] = Dict([row |-> Str("0"), seat_no |-> Str("0"),
                                              aisle |-> Str("")])])

(***************************************************************************)
(* Further properties of the handler, checked under Spec.                  *)
(***************************************************************************)
(* C16: every result create_object returns has a status among exists,
   created, invalid_request, class_not_found and error. *)
C16_ObjectStatusInTaxonomy ==
    \A r \in Req :
        create_object_result[r] # Null =>
            create_object_result[r].status \in
                {"exists", "created", "invalid_request", "class_not_found", "error"}

CountCalls(r, op) == Cardinality({i \in 1..Len(calls[r]) : calls[r][i].op = op})

CollaboratorOps ==
    {"eventticketclass.get", "eventticketclass.insert", "eventticketobject.get",
     "eventticketobject.insert", "create_jwt_existing_objects"}

InsertFollowsNotFound(r, insert_op, get_op) ==
    \A i \in 1..Len(calls[r]) :
        calls[r][i].op = insert_op =>
            \E j \in 1..(i - 1) :
                /\ calls[r][j].op = get_op
                /\ calls[r][j].outcome.kind = "HttpError"
                /\ calls[r][j].outcome.status_code = 404

(* C18: within one request each collaborator operation is performed at
   most once, whatever its outcome, and an insert is performed only after
   the existence check of that resource answered 404. *)
C18_NoRetry ==
    \A r \in Req :
        /\ \A op \in CollaboratorOps : CountCalls(r, op) <= 1
        /\ \A i \in 1..Len(calls[r]) : calls[r][i].op \in CollaboratorOps
        /\ InsertFollowsNotFound(r, "eventticketclass.insert", "eventticketclass.get")
        /\ InsertFollowsNotFound(r, "eventticketobject.insert", "eventticketobject.get")

C18_Witness ==
    \E r \in Req :
        /\ Answered(r)
        /\ calls[r] = <<Call("eventticketclass.get", HttpError(500)),
                        Call("eventticketobject.get", HttpError(404)),
                        Call("eventticketobject.insert", HttpError(500)),
                        Call("create_jwt_existing_objects", Ok)>>

Rejected(r) == response[r] # Null /\ response[r].code = 400

(* C19: a request answered with the 400 missing-parameters response has
   ended there: its body was never parsed and no collaborator operation was
   invoked for it, and neither taking the request nor validating it
   changes the wallet's classes and objects. *)
C19_ValidationPrecedesSideEffects ==
    /\ [](\A r \in Req :
            Rejected(r) => (pc[r] = "done" /\ data[r] = Null /\ calls[r] = <<>>))
    /\ [][\A r \in Req :
            (pc[r] \in {"idle", "validate"} /\ pc'[r] \in {"validate", "done"}) =>
                UNCHANGED walletVars]_vars

C19_Witness ==
    \E r \in Req :
        /\ Rejected(r)
        /\ Answered(r)
        /\ body[r] = LaunchBody
        /\ args[r].class_suffix = Null
        /\ DOMAIN wallet_classes # {}

(***************************************************************************)
(* Two requests in flight at once, as under the threaded server: both      *)
(* carry the identifiers of a class and an object the wallet does not hold *)
(* yet, and the steps of the two handlers interleave freely.               *)
(***************************************************************************)
ConcArgs ==
    [issuer_id |-> Str("I"), class_suffix |-> Str("C"), object_suffix |-> Str("O")]

ConcBodies ==
    {[kind |-> "absent"], LaunchBody,
     [kind |-> "json", value |-> Dict([seat |-> Str("A12")])]}

ConcInit ==
    /\ NormIdle
    /\ pc = [r \in Req |-> "validate"]
    /\ args = [r \in Req |-> ConcArgs]
    /\ body \in [Req -> ConcBodies]
    /\ data = [r \in Req |-> Null]
    /\ missing_params = [r \in Req |-> <<>>]
    /\ create_class_result = [r \in Req |-> Null]
    /\ create_object_result = [r \in Req |-> Null]
    /\ create_existing = [r \in Req |-> Null]
    /\ response = [r \in Req |-> Null]
    /\ calls = [r \in Req |-> <<>>]
    /\ wallet_classes = EmptyMap
    /\ wallet_objects = EmptyMap

ConcNext ==
    \E r \in Req :
        \/ Validate(r)
        \/ ParseBody(r)
        \/ ClassGet(r)
        \/ ClassInsert(r)
        \/ ObjectGet(r)
        \/ ObjectBuildFails(r)
        \/ ObjectInsert(r)
        \/ CreateJwt(r)
        \/ Respond(r)

SpecConc == ConcInit /\ [][ConcNext]_vars

(* Every call of the request was answered from the wallet's contents: found,
   not found (404) or already there (409); none failed by itself. *)
AnsweredFromWalletState(r) ==
    \A i \in 1..Len(calls[r]) :
        calls[r][i].outcome \in {Ok, HttpError(404), HttpError(409)}

(* C17: of two concurrent requests for the same new class and object, each
   is answered as in a sequential run: HTTP 200 with the save-link result
   or with an object-creation result of the documented statuses; the other
   request's writes cause neither an HTTP 500 nor an undocumented status. *)
C17_ConcurrentRequestsAnsweredAsSequential ==
    \A r \in Req :
        (/\ Answered(r)
         /\ AnsweredFromWalletState(r)
         /\ ~NewObjectRaises(data[r])) =>
            /\ response[r].code = 200
            /\ \/ response[r].body.status = "success"
               \/ /\ response[r].body.has_error
                  /\ response[r].body.status \in
                        {"exists", "created", "invalid_request", "class_not_found", "error"}

====
